---- MODULE Spec2Model ----
(***************************************************************************)
(* The Parse / BuildParser contract of src/src/lib.rs together with the    *)
(* radix-integer parser (ParseInt / ParseRadix) of src/tests/int.rs.       *)
(*                                                                         *)
(* A str is a sequence of chars, a char is a one-character string.  The    *)
(* integer type T is an unsigned integer of Width bits (u32 in the test,   *)
(* narrowed here so that overflow is reached by short inputs).             *)
(* Every operation returns a record                                         *)
(*    [self |-> parser after the call, ret |-> returned value,              *)
(*     calls |-> the primitive / hook calls it made, in order].            *)
(***************************************************************************)
EXTENDS Integers, Sequences, FiniteSets

VARIABLES builder, parsers, last, fed, outs

vars == <<builder, parsers, last, fed, outs>>

(* ------------------------------ bounds -------------------------------- *)

\* bit width of the unsigned integer type T
Width == 6

\* longest input chunk, in chars
MaxLen == 2

\* longest chunk sequence fed to one instance in the paired runs
MaxFeed == 2

RECURSIVE Pow(_, _)
Pow(b, n) == IF n = 0 THEN 1 ELSE b * Pow(b, n - 1)

\* T::MAX
MaxVal == Pow(2, Width) - 1

\* the chars inputs are made of: digits of several radices, both cases of a
\* letter digit, and a blank
Alphabet == {"0", "1", "2", "9", "f", "F", "z", " "}

\* the radices a ParseRadix is constructed with (37 is outside the valid range)
Radices == {2, 10, 16, 36, 37}

RECURSIVE StrsOfLen(_)
StrsOfLen(n) ==
    IF n = 0 THEN {<<>>}
    ELSE {Append(s, c) : s \in StrsOfLen(n - 1), c \in Alphabet}

Strs(n) == UNION {StrsOfLen(k) : k \in 0..n}

Chunks == Strs(MaxLen)

\* the chunks of the paired runs: empty, digits only, a run that overflows in
\* radix 16 and 36, digits followed by a blank
PairChunks == {<<>>, <<"1">>, <<"1", "0">>, <<"f", "f">>, <<"1", " ">>}

Instances == {1, 2}

(* ------------------------- values and results -------------------------- *)

\* ParseIntError
InvalidChar(c) == [kind |-> "InvalidChar", ch |-> c]
Empty == [kind |-> "Empty"]
Overflow == [kind |-> "Overflow"]

\* Result / Poll values
Err(e) == [tag |-> "Err", err |-> e]
OkPending == [tag |-> "Pending"]
OkReadyPair(output, input) == [tag |-> "Ready", out |-> output, rest |-> input]
OkReady(output) == [tag |-> "Ready", out |-> output]
OkPair(output, input) == [tag |-> "Ok", out |-> output, rest |-> input]
Ok(output) == [tag |-> "Ok", out |-> output]
\* unwinding out of the call: nothing is returned
Panic == [tag |-> "Panic"]

\* <&str as Default>::default()
InputDefault == <<>>

\* struct ParseInt { val, radix }
ParseInt(val, radix) == [val |-> val, radix |-> radix]

\* T::default()
TDefault == 0

None == -1

Call(fn, arg) == [fn |-> fn, arg |-> arg]

Outcome(self, ret, calls) == [self |-> self, ret |-> ret, calls |-> calls]

(* ------------------------------ FromRadix ------------------------------ *)

is_valid_radix(radix) == 2 <= radix /\ radix <= 36

\* value of a char as a digit in the largest radix: '0'-'9', then 'a'-'z' and
\* 'A'-'Z' for 10-35; None for any other char
DigitValue(c) ==
    CASE c = "0" -> 0
      [] c = "1" -> 1
      [] c = "2" -> 2
      [] c = "9" -> 9
      [] c = "f" -> 15
      [] c = "F" -> 15
      [] c = "z" -> 35
      [] OTHER -> None

\* char::to_digit panics on a radix above 36
RadixPanics(radix) == radix > 36

\* char::to_digit(radix), for a radix that does not panic
to_digit(c, radix) ==
    IF DigitValue(c) # None /\ DigitValue(c) < radix THEN DigitValue(c) ELSE None

is_digit_radix(c, radix) == to_digit(c, radix) # None

from_digit_radix(c, radix) == to_digit(c, radix)

\* the multiplication wrapping at the width of the type
wrapping_mul(a, b) == (a * b) % (MaxVal + 1)

checked_mul(a, b) == IF a * b > MaxVal THEN None ELSE a * b

checked_add(a, b) == IF a + b > MaxVal THEN None ELSE a + b

(* --------------------------- ParseInt: Parse --------------------------- *)

\* extraneous without the digit test: every leftover is an invalid char
extraneous_always_invalid(self, input) ==
    IF input = <<>> THEN Outcome(self, Empty, <<Call("extraneous", input)>>)
    ELSE IF RadixPanics(self.radix)
         THEN Outcome(self, Panic, <<Call("extraneous", input)>>)
    ELSE Outcome(self, InvalidChar(Head(input)), <<Call("extraneous", input)>>)

\* extraneous with the digit test inverted
extraneous_inverted(self, input) ==
    IF input = <<>> THEN Outcome(self, Empty, <<Call("extraneous", input)>>)
    ELSE IF RadixPanics(self.radix)
         THEN Outcome(self, Panic, <<Call("extraneous", input)>>)
    ELSE IF ~is_digit_radix(Head(input), self.radix)
         THEN Outcome(self, Overflow, <<Call("extraneous", input)>>)
    ELSE Outcome(self, InvalidChar(Head(input)), <<Call("extraneous", input)>>)

extraneous(self, input) ==
    IF input = <<>> THEN Outcome(self, Empty, <<Call("extraneous", input)>>)
    ELSE IF RadixPanics(self.radix)
         THEN Outcome(self, Panic, <<Call("extraneous", input)>>)
    ELSE IF is_digit_radix(Head(input), self.radix)
         THEN Outcome(self, Overflow, <<Call("extraneous", input)>>)
    ELSE Outcome(self, InvalidChar(Head(input)), <<Call("extraneous", input)>>)

\* insufficient reporting what the instance holds
insufficient_by_state(self) ==
    Outcome(self, IF self.val = TDefault THEN Empty ELSE Overflow,
            <<Call("insufficient", <<>>)>>)

insufficient(self) == Outcome(self, Empty, <<Call("insufficient", <<>>)>>)

\* input.find(|c| !is_digit_radix(c, radix)): 1-based position of the first
\* char that is no digit, 0 for no such char
find(input, radix) ==
    LET bad == {i \in 1..Len(input) : ~is_digit_radix(input[i], radix)}
    IN  IF bad = {} THEN 0 ELSE CHOOSE i \in bad : \A j \in bad : i <= j

\* the loop adding the digit before it multiplies by the radix
RECURSIVE accumulate_add_first(_, _, _)
accumulate_add_first(val, digits, radix) ==
    IF digits = <<>> THEN [val |-> val, done |-> TRUE]
    ELSE LET a == checked_add(val, from_digit_radix(Head(digits), radix))
         IN  IF a = None THEN [val |-> val, done |-> FALSE]
             ELSE LET m == checked_mul(a, radix)
                  IN  IF m = None THEN [val |-> a, done |-> FALSE]
                      ELSE accumulate_add_first(m, Tail(digits), radix)

\* the for loop over the digits: the value left in self.val and whether the
\* loop ran to its end (FALSE: left by `?` with Overflow)
RECURSIVE accumulate(_, _, _)
accumulate(val, digits, radix) ==
    IF digits = <<>> THEN [val |-> val, done |-> TRUE]
    ELSE LET m == checked_mul(val, radix)
         IN  IF m = None THEN [val |-> val, done |-> FALSE]
             ELSE LET a == checked_add(m, from_digit_radix(Head(digits), radix))
                  IN  IF a = None THEN [val |-> m, done |-> FALSE]
                      ELSE accumulate(a, Tail(digits), radix)

\* try_parse returning its whole input as the leftover of a Ready result
try_parse_whole_leftover(self, input) ==
    LET calls == <<Call("try_parse", input)>>
        pos == find(input, self.radix)
        digits == IF pos = 0 THEN input ELSE SubSeq(input, 1, pos - 1)
        acc == accumulate(self.val, digits, self.radix)
    IN  IF input # <<>> /\ RadixPanics(self.radix)
        THEN Outcome(self, Panic, calls)
        ELSE IF pos # 0 /\ digits = <<>>
        THEN Outcome(self, Err(InvalidChar(Head(input))), calls)
        ELSE IF pos = 0 /\ input = <<>>
        THEN Outcome(self, OkPending, calls)
        ELSE IF ~acc.done
        THEN Outcome(ParseInt(acc.val, self.radix), Err(Overflow), calls)
        ELSE Outcome(ParseInt(TDefault, self.radix),
                     OkReadyPair(acc.val, input), calls)

\* try_parse clearing self.val when it reports an invalid first char
try_parse_reset_on_invalid(self, input) ==
    LET calls == <<Call("try_parse", input)>>
        pos == find(input, self.radix)
        digits == IF pos = 0 THEN input ELSE SubSeq(input, 1, pos - 1)
        remaining == IF pos = 0 THEN <<>> ELSE SubSeq(input, pos, Len(input))
        acc == accumulate(self.val, digits, self.radix)
    IN  IF input # <<>> /\ RadixPanics(self.radix)
        THEN Outcome(self, Panic, calls)
        ELSE IF pos # 0 /\ digits = <<>>
        THEN Outcome(ParseInt(TDefault, self.radix),
                     Err(InvalidChar(Head(remaining))), calls)
        ELSE IF pos = 0 /\ input = <<>>
        THEN Outcome(self, OkPending, calls)
        ELSE IF ~acc.done
        THEN Outcome(ParseInt(acc.val, self.radix), Err(Overflow), calls)
        ELSE Outcome(ParseInt(TDefault, self.radix),
                     OkReadyPair(acc.val, remaining), calls)

\* try_parse waiting for more digits when the chunk ends in a digit
try_parse_pending_at_end(self, input) ==
    LET calls == <<Call("try_parse", input)>>
        pos == find(input, self.radix)
        digits == IF pos = 0 THEN input ELSE SubSeq(input, 1, pos - 1)
        remaining == IF pos = 0 THEN <<>> ELSE SubSeq(input, pos, Len(input))
        acc == accumulate(self.val, digits, self.radix)
    IN  IF input # <<>> /\ RadixPanics(self.radix)
        THEN Outcome(self, Panic, calls)
        ELSE IF pos # 0 /\ digits = <<>>
        THEN Outcome(self, Err(InvalidChar(Head(remaining))), calls)
        ELSE IF pos = 0 /\ input = <<>>
        THEN Outcome(self, OkPending, calls)
        ELSE IF ~acc.done
        THEN Outcome(ParseInt(acc.val, self.radix), Err(Overflow), calls)
        ELSE IF pos = 0
        THEN Outcome(ParseInt(acc.val, self.radix), OkPending, calls)
        ELSE Outcome(ParseInt(TDefault, self.radix),
                     OkReadyPair(acc.val, remaining), calls)

\* try_parse taking self.val also when it returns Pending
try_parse_take_on_pending(self, input) ==
    LET calls == <<Call("try_parse", input)>>
        pos == find(input, self.radix)
        digits == IF pos = 0 THEN input ELSE SubSeq(input, 1, pos - 1)
        remaining == IF pos = 0 THEN <<>> ELSE SubSeq(input, pos, Len(input))
        acc == accumulate(self.val, digits, self.radix)
    IN  IF input # <<>> /\ RadixPanics(self.radix)
        THEN Outcome(self, Panic, calls)
        ELSE IF pos # 0 /\ digits = <<>>
        THEN Outcome(self, Err(InvalidChar(Head(remaining))), calls)
        ELSE IF pos = 0 /\ input = <<>>
        THEN Outcome(ParseInt(TDefault, self.radix), OkPending, calls)
        ELSE IF ~acc.done
        THEN Outcome(ParseInt(acc.val, self.radix), Err(Overflow), calls)
        ELSE Outcome(ParseInt(TDefault, self.radix),
                     OkReadyPair(acc.val, remaining), calls)

\* try_parse cutting its input off before the digit that would overflow, as
\* the documentation of Parse allows, in place of the Overflow error
try_parse_cut_off_overflow(self, input) ==
    LET calls == <<Call("try_parse", input)>>
        pos == find(input, self.radix)
        digits == IF pos = 0 THEN input ELSE SubSeq(input, 1, pos - 1)
        remaining == IF pos = 0 THEN <<>> ELSE SubSeq(input, pos, Len(input))
        fits == {k \in 0..Len(digits) :
                    accumulate(self.val, SubSeq(digits, 1, k), self.radix).done}
        most == CHOOSE k \in fits : \A j \in fits : j <= k
        acc == accumulate(self.val, SubSeq(digits, 1, most), self.radix)
    IN  IF input # <<>> /\ RadixPanics(self.radix)
        THEN Outcome(self, Panic, calls)
        ELSE IF pos # 0 /\ digits = <<>>
        THEN Outcome(self, Err(InvalidChar(Head(remaining))), calls)
        ELSE IF pos = 0 /\ input = <<>>
        THEN Outcome(self, OkPending, calls)
        ELSE IF most = 0
        THEN Outcome(self, Err(Overflow), calls)
        ELSE Outcome(ParseInt(TDefault, self.radix),
                     OkReadyPair(acc.val, SubSeq(input, most + 1, Len(input))),
                     calls)

\* try_parse returning a copy of self.val in place of mem::take
try_parse_no_take(self, input) ==
    LET calls == <<Call("try_parse", input)>>
        pos == find(input, self.radix)
        digits == IF pos = 0 THEN input ELSE SubSeq(input, 1, pos - 1)
        remaining == IF pos = 0 THEN <<>> ELSE SubSeq(input, pos, Len(input))
        acc == accumulate(self.val, digits, self.radix)
    IN  IF input # <<>> /\ RadixPanics(self.radix)
        THEN Outcome(self, Panic, calls)
        ELSE IF pos # 0 /\ digits = <<>>
        THEN Outcome(self, Err(InvalidChar(Head(remaining))), calls)
        ELSE IF pos = 0 /\ input = <<>>
        THEN Outcome(self, OkPending, calls)
        ELSE IF ~acc.done
        THEN Outcome(ParseInt(acc.val, self.radix), Err(Overflow), calls)
        ELSE Outcome(ParseInt(acc.val, self.radix),
                     OkReadyPair(acc.val, remaining), calls)

try_parse(self, input) ==
    LET calls == <<Call("try_parse", input)>>
        pos == find(input, self.radix)
        digits == IF pos = 0 THEN input ELSE SubSeq(input, 1, pos - 1)
        remaining == IF pos = 0 THEN <<>> ELSE SubSeq(input, pos, Len(input))
        acc == accumulate(self.val, digits, self.radix)
    IN  IF input # <<>> /\ RadixPanics(self.radix)
        THEN Outcome(self, Panic, calls)
        ELSE IF pos # 0 /\ digits = <<>>
        THEN Outcome(self, Err(InvalidChar(Head(remaining))), calls)
        ELSE IF pos = 0 /\ input = <<>>
        THEN Outcome(self, OkPending, calls)
        ELSE IF ~acc.done
        THEN Outcome(ParseInt(acc.val, self.radix), Err(Overflow), calls)
        ELSE Outcome(ParseInt(TDefault, self.radix),
                     OkReadyPair(acc.val, remaining), calls)

(* ----------------------- Parse: provided methods ----------------------- *)

\* parse running the step a second time on the same chunk
parse_twice(self, input) ==
    LET first == try_parse(self, input)
        t == try_parse(first.self, input)
    IN  CASE t.ret.tag \in {"Err", "Panic"} ->
                Outcome(t.self, t.ret, first.calls \o t.calls)
          [] t.ret.tag = "Pending" ->
                Outcome(t.self, Err(Empty),
                        first.calls \o t.calls \o <<Call("insufficient", <<>>)>>)
          [] t.ret.tag = "Ready" ->
                Outcome(t.self, OkPair(t.ret.out, t.ret.rest),
                        first.calls \o t.calls)

\* parse with the leftover check of parse_only copied into it
parse_strict(self, input) ==
    LET t == try_parse(self, input)
    IN  CASE t.ret.tag \in {"Err", "Panic"} -> t
          [] t.ret.tag = "Pending" ->
                Outcome(t.self, Err(Empty), t.calls \o <<Call("insufficient", <<>>)>>)
          [] t.ret.tag = "Ready" ->
                IF t.ret.rest = InputDefault
                THEN Outcome(t.self, OkPair(t.ret.out, t.ret.rest), t.calls)
                ELSE Outcome(t.self, Err(InvalidChar(Head(t.ret.rest))),
                             t.calls \o <<Call("extraneous", t.ret.rest)>>)

parse(self, input) ==
    LET t == try_parse(self, input)
    IN  CASE t.ret.tag \in {"Err", "Panic"} -> t
          [] t.ret.tag = "Pending" ->
                LET h == insufficient(t.self)
                IN  Outcome(h.self, Err(h.ret), t.calls \o h.calls)
          [] t.ret.tag = "Ready" ->
                Outcome(t.self, OkPair(t.ret.out, t.ret.rest), t.calls)

\* try_parse_only turning Pending into the insufficient error
try_parse_only_eager(self, input) ==
    LET t == try_parse(self, input)
    IN  CASE t.ret.tag \in {"Err", "Panic"} -> t
          [] t.ret.tag = "Pending" ->
                Outcome(t.self, Err(Empty), t.calls \o <<Call("insufficient", <<>>)>>)
          [] t.ret.tag = "Ready" ->
                IF t.ret.rest = InputDefault
                THEN Outcome(t.self, OkReady(t.ret.out), t.calls)
                ELSE Outcome(t.self, Err(InvalidChar(Head(t.ret.rest))),
                             t.calls \o <<Call("extraneous", t.ret.rest)>>)

try_parse_only(self, input) ==
    LET t == try_parse(self, input)
    IN  CASE t.ret.tag \in {"Err", "Panic"} -> t
          [] t.ret.tag = "Pending" -> Outcome(t.self, OkPending, t.calls)
          [] t.ret.tag = "Ready" ->
                IF t.ret.rest = InputDefault
                THEN Outcome(t.self, OkReady(t.ret.out), t.calls)
                ELSE LET h == extraneous(t.self, t.ret.rest)
                     IN  Outcome(h.self,
                                 IF h.ret = Panic THEN Panic ELSE Err(h.ret),
                                 t.calls \o h.calls)

\* parse_only with the comparison of the leftover inverted
parse_only_inverted(self, input) ==
    LET t == try_parse(self, input)
    IN  CASE t.ret.tag \in {"Err", "Panic"} -> t
          [] t.ret.tag = "Pending" ->
                Outcome(t.self, Err(Empty), t.calls \o <<Call("insufficient", <<>>)>>)
          [] t.ret.tag = "Ready" ->
                IF t.ret.rest # InputDefault
                THEN Outcome(t.self, Ok(t.ret.out), t.calls)
                ELSE LET h == extraneous(t.self, t.ret.rest)
                     IN  Outcome(h.self, Err(h.ret), t.calls \o h.calls)

\* parse_only without the comparison of the leftover with Input::default()
parse_only_lenient(self, input) ==
    LET t == try_parse(self, input)
    IN  CASE t.ret.tag \in {"Err", "Panic"} -> t
          [] t.ret.tag = "Pending" ->
                Outcome(t.self, Err(Empty), t.calls \o <<Call("insufficient", <<>>)>>)
          [] t.ret.tag = "Ready" -> Outcome(t.self, Ok(t.ret.out), t.calls)

parse_only(self, input) ==
    LET t == try_parse(self, input)
    IN  CASE t.ret.tag \in {"Err", "Panic"} -> t
          [] t.ret.tag = "Pending" ->
                LET h == insufficient(t.self)
                IN  Outcome(h.self, Err(h.ret), t.calls \o h.calls)
          [] t.ret.tag = "Ready" ->
                IF t.ret.rest = InputDefault
                THEN Outcome(t.self, Ok(t.ret.out), t.calls)
                ELSE LET h == extraneous(t.self, t.ret.rest)
                     IN  Outcome(h.self,
                                 IF h.ret = Panic THEN Panic ELSE Err(h.ret),
                                 t.calls \o h.calls)

(* ----------------------------- BuildParser ----------------------------- *)

\* ParseRadix::build_parser: builder is the radix held by ParseRadix
build_parser(b) == ParseInt(TDefault, b)

\* parse_one delegating to parse_only
parse_one_strict(b, input) ==
    LET p == build_parser(b)
        r == parse_only(p, input)
    IN  Outcome(r.self,
                IF r.ret.tag = "Ok" THEN OkPair(r.ret.out, <<>>) ELSE r.ret,
                <<Call("build_parser", <<>>)>> \o r.calls)

parse_one(b, input) ==
    LET p == build_parser(b)
        r == parse(p, input)
    IN  Outcome(r.self, r.ret, <<Call("build_parser", <<>>)>> \o r.calls)

parse_one_only(b, input) ==
    LET p == build_parser(b)
        r == parse_only(p, input)
    IN  Outcome(r.self, r.ret, <<Call("build_parser", <<>>)>> \o r.calls)

(* ------------------------------- actions ------------------------------- *)

\* what the last operation was: its name, the instance (0: the builder), the
\* chunk, the instance before the call, what it returned and what it called
Last(op, who, input, pre, o) ==
    [op |-> op, who |-> who, input |-> input, pre |-> pre,
     ret |-> o.ret, calls |-> o.calls]

\* the caller holds no result
NoResult == [op |-> "none", who |-> 0]

Init ==
    /\ builder \in Radices
    /\ parsers = [i \in Instances |-> build_parser(builder)]
    /\ last = NoResult
    /\ fed = [i \in Instances |-> <<>>]
    /\ outs = [i \in Instances |-> <<>>]

BuildParser(i) ==
    /\ last = NoResult
    /\ parsers' = [parsers EXCEPT ![i] = build_parser(builder)]
    /\ last' = [op |-> "build_parser", who |-> i]
    /\ UNCHANGED <<builder, fed, outs>>

TryParse(i) ==
    /\ last = NoResult
    /\ \E input \in Chunks :
          LET o == try_parse(parsers[i], input)
          IN  /\ parsers' = [parsers EXCEPT ![i] = o.self]
              /\ last' = Last("try_parse", i, input, parsers[i], o)
    /\ UNCHANGED <<builder, fed, outs>>

ParseStep(i) ==
    /\ last = NoResult
    /\ \E input \in Chunks :
          LET o == parse(parsers[i], input)
          IN  /\ parsers' = [parsers EXCEPT ![i] = o.self]
              /\ last' = Last("parse", i, input, parsers[i], o)
    /\ UNCHANGED <<builder, fed, outs>>

TryParseOnly(i) ==
    /\ last = NoResult
    /\ \E input \in Chunks :
          LET o == try_parse_only(parsers[i], input)
          IN  /\ parsers' = [parsers EXCEPT ![i] = o.self]
              /\ last' = Last("try_parse_only", i, input, parsers[i], o)
    /\ UNCHANGED <<builder, fed, outs>>

ParseOnly(i) ==
    /\ last = NoResult
    /\ \E input \in Chunks :
          LET o == parse_only(parsers[i], input)
          IN  /\ parsers' = [parsers EXCEPT ![i] = o.self]
              /\ last' = Last("parse_only", i, input, parsers[i], o)
    /\ UNCHANGED <<builder, fed, outs>>

\* the parser built inside parse_one is dropped at its end
ParseOne ==
    /\ last = NoResult
    /\ \E input \in Chunks :
          last' = Last("parse_one", 0, input, build_parser(builder),
                       parse_one(builder, input))
    /\ UNCHANGED <<builder, parsers, fed, outs>>

ParseOneOnly ==
    /\ last = NoResult
    /\ \E input \in Chunks :
          last' = Last("parse_one_only", 0, input, build_parser(builder),
                       parse_one_only(builder, input))
    /\ UNCHANGED <<builder, parsers, fed, outs>>

\* p.extraneous(input), called on the instance directly; &self is not changed
Extraneous(i) ==
    /\ last = NoResult
    /\ \E input \in Chunks :
          LET o == extraneous(parsers[i], input)
          IN  /\ parsers' = [parsers EXCEPT ![i] = o.self]
              /\ last' = Last("extraneous", i, input, parsers[i], o)
    /\ UNCHANGED <<builder, fed, outs>>

\* p.insufficient(), called on the instance directly
Insufficient(i) ==
    /\ last = NoResult
    /\ LET o == insufficient(parsers[i])
       IN  /\ parsers' = [parsers EXCEPT ![i] = o.self]
           /\ last' = Last("insufficient", i, <<>>, parsers[i], o)
    /\ UNCHANGED <<builder, fed, outs>>

\* the caller's statement ends: the returned value is dropped
DropResult ==
    /\ last # NoResult
    /\ last' = NoResult
    /\ UNCHANGED <<builder, parsers, fed, outs>>

\* one instance driven through every entry point, next to the builder's
\* one-shots
Next ==
    \/ DropResult
    \/ BuildParser(1)
    \/ TryParse(1)
    \/ ParseStep(1)
    \/ TryParseOnly(1)
    \/ ParseOnly(1)
    \/ ParseOne
    \/ ParseOneOnly
    \/ Extraneous(1)
    \/ Insufficient(1)

Spec == Init /\ [][Next]_vars

(* ----------- two instances of one builder, fed by try_parse ------------ *)

\* let p = builder.build_parser(): instance i is replaced by a new one
Build(i) ==
    /\ parsers' = [parsers EXCEPT ![i] = build_parser(builder)]
    /\ fed' = [fed EXCEPT ![i] = <<>>]
    /\ outs' = [outs EXCEPT ![i] = <<>>]
    /\ UNCHANGED <<builder, last>>

\* try_parse on a value shared by the instances of one builder
FeedShared(i, input) ==
    LET o == try_parse(parsers[i], input)
    IN  /\ Len(fed[i]) < MaxFeed
        /\ parsers' = [j \in Instances |-> o.self]
        /\ fed' = [fed EXCEPT ![i] = Append(fed[i], input)]
        /\ outs' = [outs EXCEPT ![i] = Append(outs[i], o.ret)]
        /\ UNCHANGED <<builder, last>>

\* p.try_parse(input) on instance i; fed and outs keep what the instance was
\* given and what it returned since it was built
Feed(i, input) ==
    LET o == try_parse(parsers[i], input)
    IN  /\ Len(fed[i]) < MaxFeed
        /\ parsers' = [parsers EXCEPT ![i] = o.self]
        /\ fed' = [fed EXCEPT ![i] = Append(fed[i], input)]
        /\ outs' = [outs EXCEPT ![i] = Append(outs[i], o.ret)]
        /\ UNCHANGED <<builder, last>>

PairNext ==
    \/ \E i \in Instances : Build(i)
    \/ \E i \in Instances, input \in PairChunks : Feed(i, input)

SpecPair == Init /\ [][PairNext]_vars

(* ======================= properties of the contract ==================== *)

\* the names of the calls an operation made, in order
CallNames(calls) == [k \in 1..Len(calls) |-> calls[k].fn]

(* C1: parse(input) returns what try_parse(input) returns from the same     *)
(* state, with Pending replaced by Err(insufficient()) evaluated on the     *)
(* state after the step, Ready(output, leftover) passed on unchanged as     *)
(* Ok((output, leftover)) also when the leftover is not empty, an error     *)
(* passed on as it is; the instance is left as try_parse leaves it.         *)
C1_ParseDerivation ==
    last.op = "parse" =>
        LET t == try_parse(last.pre, last.input)
        IN  /\ parsers[last.who] = t.self
            /\ t.ret = OkPending => last.ret = Err(insufficient(t.self).ret)
            /\ t.ret.tag = "Ready" =>
                   last.ret = OkPair(t.ret.out, t.ret.rest)
            /\ t.ret.tag \in {"Err", "Panic"} => last.ret = t.ret

\* parse has passed on a Ready result with a leftover that is not empty
C1_Witness ==
    /\ last.op = "parse"
    /\ last.ret.tag = "Ok"
    /\ last.ret.rest # InputDefault
    /\ try_parse(last.pre, last.input).ret.tag = "Ready"

(* C2: parse_only(input) equals parse(input) run from the same state,       *)
(* except that a success with a leftover that is not Input::default() is    *)
(* replaced by Err(extraneous(leftover)): Pending gives Err(insufficient()),*)
(* Ready with the default leftover gives Ok(output), Ready with any other   *)
(* leftover gives Err(extraneous(leftover)).                                 *)
C2_ParseOnlyComposition ==
    last.op = "parse_only" =>
        LET p == parse(last.pre, last.input)
            t == try_parse(last.pre, last.input)
        IN  /\ parsers[last.who] = p.self
            /\ (p.ret.tag = "Ok" /\ p.ret.rest # InputDefault) =>
                   last.ret = Err(extraneous(p.self, p.ret.rest).ret)
            /\ (p.ret.tag = "Ok" /\ p.ret.rest = InputDefault) =>
                   last.ret = Ok(p.ret.out)
            /\ p.ret.tag # "Ok" => last.ret = p.ret
            /\ t.ret = OkPending => last.ret = Err(insufficient(t.self).ret)
            /\ (t.ret.tag = "Ready" /\ t.ret.rest = InputDefault) =>
                   last.ret = Ok(t.ret.out)
            /\ (t.ret.tag = "Ready" /\ t.ret.rest # InputDefault) =>
                   last.ret = Err(extraneous(t.self, t.ret.rest).ret)

\* parse_only has replaced a success of parse that had a leftover
C2_Witness ==
    /\ last.op = "parse_only"
    /\ last.ret.tag = "Err"
    /\ parse(last.pre, last.input).ret.tag = "Ok"
    /\ parse(last.pre, last.input).ret.rest # InputDefault

(* C3: try_parse_only(input) returns Ok(Pending) when try_parse returns     *)
(* Pending (never the insufficient error), Ok(Ready(output)) when try_parse *)
(* returns Ready with a leftover equal to Input::default(), and             *)
(* Err(extraneous(leftover)) when it returns Ready with any other leftover. *)
C3_TryParseOnly ==
    last.op = "try_parse_only" =>
        LET t == try_parse(last.pre, last.input)
        IN  /\ parsers[last.who] = t.self
            /\ t.ret = OkPending =>
                   /\ last.ret = OkPending
                   /\ CallNames(last.calls) = <<"try_parse">>
            /\ (t.ret.tag = "Ready" /\ t.ret.rest = InputDefault) =>
                   last.ret = OkReady(t.ret.out)
            /\ (t.ret.tag = "Ready" /\ t.ret.rest # InputDefault) =>
                   last.ret = Err(extraneous(t.self, t.ret.rest).ret)

\* try_parse_only has passed Pending on, on an instance that holds a value
C3_Witness ==
    /\ last.op = "try_parse_only"
    /\ last.ret = OkPending
    /\ last.pre.val # TDefault

(* C4: parse_one(input) returns the result of parse(input) on a parser      *)
(* freshly produced by build_parser(), parse_one_only(input) the result of  *)
(* parse_only(input) on one; each fails exactly when that operation on the  *)
(* fresh parser fails, whatever calls were made before.                     *)
C4_OneShot ==
    /\ last.op = "parse_one" =>
           LET r == parse(build_parser(builder), last.input)
           IN  /\ last.ret = r.ret
               /\ (last.ret.tag = "Err") = (r.ret.tag = "Err")
    /\ last.op = "parse_one_only" =>
           LET r == parse_only(build_parser(builder), last.input)
           IN  /\ last.ret = r.ret
               /\ (last.ret.tag = "Err") = (r.ret.tag = "Err")

\* parse_one has returned a value and its leftover while the long-lived
\* instance holds the partial value of an earlier overflow
C4_Witness ==
    /\ last.op = "parse_one"
    /\ last.ret.tag = "Ok"
    /\ last.ret.rest # InputDefault
    /\ parsers[1].val # TDefault

\* a parser and the results it returns when it is fed the chunks in order
RECURSIVE Replay(_, _)
Replay(p, chunks) ==
    IF chunks = <<>> THEN [self |-> p, outs |-> <<>>]
    ELSE LET o == try_parse(p, Head(chunks))
             r == Replay(o.self, Tail(chunks))
         IN  [self |-> r.self, outs |-> <<o.ret>> \o r.outs]

\* what an instance holds and has returned depends on the builder's radix and
\* on the chunks it was fed itself, and on nothing else
C5_OwnChunksOnly ==
    \A i \in Instances :
        LET r == Replay(build_parser(builder), fed[i])
        IN  /\ parsers[i] = r.self
            /\ outs[i] = r.outs
            /\ parsers[i].radix = builder

\* fed the same chunks, two instances agree
C5_SameChunksSameResults ==
    fed[1] = fed[2] => (outs[1] = outs[2] /\ parsers[1] = parsers[2])

\* a step leaves the builder, and every instance it does not feed, as they are
C5_Frame ==
    /\ builder' = builder
    /\ \A i \in Instances :
           fed'[i] = fed[i] => (parsers'[i] = parsers[i] /\ outs'[i] = outs[i])

(* C5: two parsers obtained from two build_parser() calls on one builder    *)
(* start identical and are independent: fed the same sequence of chunks     *)
(* they return the same sequence of results, and try_parse calls on one of  *)
(* them, also calls that end in an error, change neither the state nor the  *)
(* later results of the other, nor the builder's radix.                     *)
C5_BuilderIndependence ==
    /\ [](C5_OwnChunksOnly /\ C5_SameChunksSameResults)
    /\ [][C5_Frame]_vars

\* both instances were fed the same chunks, the first of which overflowed and
\* left a partial value in each
C5_Witness ==
    /\ fed[1] = fed[2]
    /\ Len(fed[1]) >= 2
    /\ outs[1][1] = Err(Overflow)
    /\ outs[2][1] = Err(Overflow)
    /\ parsers[1].val # TDefault

(* ================== properties of the radix-integer parser ============= *)

IsSuffix(t, s) ==
    /\ Len(t) <= Len(s)
    /\ t = SubSeq(s, Len(s) - Len(t) + 1, Len(s))

\* the value of a string of digits in a radix, most significant digit first
RECURSIVE PosValue(_, _)
PosValue(s, radix) ==
    IF s = <<>> THEN 0
    ELSE DigitValue(s[1]) * Pow(radix, Len(s) - 1) + PosValue(Tail(s), radix)

\* not empty and made of digits of the radix only
DigitsOnly(s, radix) ==
    /\ s # <<>>
    /\ \A k \in 1..Len(s) : DigitValue(s[k]) # None /\ DigitValue(s[k]) < radix

\* the length of the longest prefix made of digits of the radix
LeadLen(s, radix) ==
    CHOOSE n \in 0..Len(s) :
        /\ n > 0 => DigitsOnly(SubSeq(s, 1, n), radix)
        /\ n < Len(s) => ~DigitsOnly(<<s[n + 1]>>, radix)

(* C6: for every Ready result of try_parse, in any reachable parser state,  *)
(* the leftover is a suffix of the chunk passed in, the consumed prefix     *)
(* (the chars the output was made of) followed by the leftover is the       *)
(* chunk, and the leftover is the empty input if and only if the whole      *)
(* chunk was consumed.                                                       *)
C6_LeftoverIsSuffix ==
    (last.op = "try_parse" /\ last.ret.tag = "Ready") =>
        LET k == Len(last.input) - Len(last.ret.rest)
            consumed == SubSeq(last.input, 1, k)
            radix == last.pre.radix
        IN  /\ IsSuffix(last.ret.rest, last.input)
            /\ consumed \o last.ret.rest = last.input
            /\ DigitsOnly(consumed, radix)
            /\ last.ret.out
                   = last.pre.val * Pow(radix, k) + PosValue(consumed, radix)
            /\ (last.ret.rest = InputDefault) <=> (consumed = last.input)

\* try_parse has consumed a part of its chunk and returned the rest
C6_Witness ==
    /\ last.op = "try_parse"
    /\ last.ret.tag = "Ready"
    /\ last.ret.rest # InputDefault
    /\ last.ret.rest # last.input
    /\ last.ret.out > 0

\* the chunks before the k-th one fed to instance i are digits only
DigitsOnlyBefore(i, k) ==
    \A j \in 1..(k - 1) : DigitsOnly(fed[i][j], builder)

\* the digits of the first k chunks fed to instance i, one after the other
RECURSIVE DigitsUpTo(_, _)
DigitsUpTo(i, k) ==
    IF k = 0 THEN <<>>
    ELSE DigitsUpTo(i, k - 1)
             \o SubSeq(fed[i][k], 1, LeadLen(fed[i][k], builder))

(* C7, as stated: digit-only chunks fed to one instance by successive       *)
(* try_parse calls each return Pending until a non-digit ends the number,   *)
(* and the value then returned is the one accumulated over all the chunks   *)
(* fed so far.                                                               *)
C7_PendingUntilTerminated ==
    \A i \in Instances : \A k \in 1..Len(fed[i]) :
        (is_valid_radix(builder) /\ DigitsOnlyBefore(i, k)) =>
            /\ DigitsOnly(fed[i][k], builder) => outs[i][k] = OkPending
            /\ ( /\ 0 < LeadLen(fed[i][k], builder)
                 /\ LeadLen(fed[i][k], builder) < Len(fed[i][k])
                 /\ PosValue(DigitsUpTo(i, k), builder) <= MaxVal )
               => /\ outs[i][k].tag = "Ready"
                  /\ outs[i][k].out = PosValue(DigitsUpTo(i, k), builder)

\* no call before the k-th one on instance i has returned Err(Overflow)
NoOverflowBefore(i, k) ==
    \A j \in 1..(k - 1) : outs[i][j] # Err(Overflow)

(* C7, amended: on an instance none of whose earlier calls returned          *)
(* Err(Overflow), a try_parse call with a non-empty digit-only chunk whose   *)
(* value fits the type never returns Pending: it returns Ready at once with *)
(* the value of that chunk alone and an empty leftover, and leaves nothing  *)
(* behind for the next chunk.                                                *)
C7_ReadyPerChunk ==
    \A i \in Instances : \A k \in 1..Len(fed[i]) :
        ( /\ is_valid_radix(builder)
          /\ NoOverflowBefore(i, k)
          /\ DigitsOnly(fed[i][k], builder)
          /\ PosValue(fed[i][k], builder) <= MaxVal )
        => outs[i][k] = OkReadyPair(PosValue(fed[i][k], builder), <<>>)

\* two digit-only chunks fed in a row: the second result is the value of the
\* second chunk alone
C7_Witness ==
    /\ builder = 16
    /\ fed[1] = << <<"1">>, <<"1", "0">> >>
    /\ outs[1] = <<OkReadyPair(1, <<>>), OkReadyPair(16, <<>>)>>

(* C8: for every radix in [2,36] and every non-empty string of digits of    *)
(* that radix whose value fits the type, parse_one_only returns Ok(v), v    *)
(* the positional value of the string, most significant digit first,        *)
(* leading zeros allowed.                                                    *)
C8_PositionalValue ==
    ( /\ last.op = "parse_one_only"
      /\ is_valid_radix(builder)
      /\ DigitsOnly(last.input, builder)
      /\ PosValue(last.input, builder) <= MaxVal )
    => last.ret = Ok(PosValue(last.input, builder))

\* parse_one_only has returned the value of a string of several digits that
\* starts with a zero and ends with a letter digit
C8_Witness ==
    /\ last.op = "parse_one_only"
    /\ Len(last.input) >= 2
    /\ last.input[1] = "0"
    /\ last.input[Len(last.input)] = "F"
    /\ last.ret = Ok(15)

(* C9: for an input D ++ R, D a non-empty run of digits whose value v fits  *)
(* the type and R starting with a char c that is no digit, parse_one        *)
(* returns Ok((v, R)) and parse_one_only returns Err(InvalidChar(c)).       *)
C9_TrailingInput ==
    LET n == LeadLen(last.input, builder)
        D == SubSeq(last.input, 1, n)
        R == SubSeq(last.input, n + 1, Len(last.input))
    IN  ( /\ last.op \in {"parse_one", "parse_one_only"}
          /\ is_valid_radix(builder)
          /\ 0 < n
          /\ n < Len(last.input)
          /\ PosValue(D, builder) <= MaxVal )
        => /\ last.op = "parse_one" =>
                  last.ret = OkPair(PosValue(D, builder), R)
           /\ last.op = "parse_one_only" =>
                  last.ret = Err(InvalidChar(R[1]))

\* parse_one_only has rejected digits followed by a blank
C9_Witness ==
    /\ last.op = "parse_one_only"
    /\ Len(last.input) >= 2
    /\ LeadLen(last.input, builder) = Len(last.input) - 1
    /\ last.ret = Err(InvalidChar(" "))

\* the operations of Spec that take a chunk
ChunkOps ==
    {"try_parse", "parse", "try_parse_only", "parse_only",
     "parse_one", "parse_one_only"}

(* C10: starting from a clean parser, a chunk whose leading digit run D is  *)
(* not empty yields Err(Overflow) if and only if the positional value of D  *)
(* exceeds T::MAX = 2^Width - 1; a value that is returned is the value of D *)
(* and never a wrapped one.                                                  *)
C10_OverflowExactly ==
    LET n == LeadLen(last.input, last.pre.radix)
        v == PosValue(SubSeq(last.input, 1, n), last.pre.radix)
    IN  ( /\ last.op \in ChunkOps
          /\ last.pre.val = TDefault
          /\ is_valid_radix(last.pre.radix)
          /\ 0 < n )
        => /\ (last.ret = Err(Overflow)) <=> (v > MaxVal)
           /\ last.ret.tag \in {"Ok", "Ready"} =>
                  (last.ret.out = v /\ last.ret.out <= MaxVal)
           /\ last.ret.tag # "Pending"

\* parse_one_only has refused a run of "f" in radix 16 as too large
C10_Witness ==
    /\ last.op = "parse_one_only"
    /\ builder = 16
    /\ Len(last.input) >= 2
    /\ \A k \in 1..Len(last.input) : last.input[k] = "f"
    /\ last.ret = Err(Overflow)


\* the operations that reject a Pending result
StrictOps == {"parse", "parse_only", "parse_one", "parse_one_only"}

(* C11: insufficient() is Empty in every parser state, so parse, parse_only,*)
(* parse_one and parse_one_only on the empty input return Err(Empty),       *)
(* whatever chunks the instance received before.                             *)
C11_EmptyInput ==
    /\ insufficient(parsers[1]).ret = Empty
    /\ last.op = "insufficient" => (last.ret = Empty /\ parsers[1] = last.pre)
    /\ (last.op \in StrictOps /\ last.input = <<>>) =>
           /\ last.ret = Err(Empty)
           /\ last.calls[Len(last.calls)] = Call("insufficient", <<>>)

\* parse_only has refused the empty input on an instance that holds the
\* partial value of an earlier overflow
C11_Witness ==
    /\ last.op = "parse_only"
    /\ last.input = <<>>
    /\ last.pre.val # TDefault
    /\ last.ret = Err(Empty)


\* the value self.val would reach by taking in the first n chars of the chunk
\* as digits, were the type unbounded
Unbounded(val, input, n, radix) ==
    val * Pow(radix, n) + PosValue(SubSeq(input, 1, n), radix)

(* C12, as stated: when the chunk contains a char that is no digit, it is   *)
(* split at the first such char c; at position 0 the call returns           *)
(* Err(InvalidChar(c)) and leaves the accumulated value as it is; otherwise *)
(* the digits before c are consumed and the call returns Ready with their   *)
(* value and a leftover that starts at c.                                    *)
C12_CutOffAlwaysReady ==
    LET radix == last.pre.radix
        n == LeadLen(last.input, radix)
    IN  ( /\ last.op = "try_parse"
          /\ is_valid_radix(radix)
          /\ n < Len(last.input) )
        => /\ n = 0 =>
                  /\ last.ret = Err(InvalidChar(last.input[1]))
                  /\ parsers[last.who] = last.pre
           /\ n > 0 =>
                  last.ret = OkReadyPair(PosValue(SubSeq(last.input, 1, n), radix),
                                         SubSeq(last.input, n + 1, Len(last.input)))

(* C12, amended: as stated, except that the digits before c are consumed    *)
(* with the checked multiply and add: the call returns Err(Overflow) when   *)
(* taking them into the accumulated value overflows the type, and Ready     *)
(* with their value and the leftover that starts at c only when it does not.*)
C12_CutOffPolicy ==
    LET radix == last.pre.radix
        n == LeadLen(last.input, radix)
    IN  ( /\ last.op = "try_parse"
          /\ is_valid_radix(radix)
          /\ n < Len(last.input) )
        => /\ n = 0 =>
                  /\ last.ret = Err(InvalidChar(last.input[1]))
                  /\ parsers[last.who] = last.pre
           /\ (n > 0 /\ Unbounded(last.pre.val, last.input, n, radix) > MaxVal)
                  => last.ret = Err(Overflow)
           /\ (n > 0 /\ Unbounded(last.pre.val, last.input, n, radix) <= MaxVal)
                  => last.ret
                       = OkReadyPair(PosValue(SubSeq(last.input, 1, n), radix),
                                     SubSeq(last.input, n + 1, Len(last.input)))

\* try_parse has cut its chunk off at a letter that is no digit in radix 16
C12_Witness ==
    /\ last.op = "try_parse"
    /\ builder = 16
    /\ last.input = <<"F", "z">>
    /\ last.ret = OkReadyPair(15, <<"z">>)


(* C13: end of chunk is a completion signal: for every non-empty chunk of   *)
(* digits only that does not overflow, try_parse consumes the whole chunk   *)
(* and returns Ready with the chunk's value and an empty leftover; it does  *)
(* not return Pending to wait for more digits.                               *)
C13_EndOfChunkCompletes ==
    LET radix == last.pre.radix
    IN  ( /\ last.op = "try_parse"
          /\ is_valid_radix(radix)
          /\ DigitsOnly(last.input, radix)
          /\ Unbounded(last.pre.val, last.input, Len(last.input), radix)
                 <= MaxVal )
        => /\ last.ret = OkReadyPair(PosValue(last.input, radix), InputDefault)
           /\ parsers[last.who] = ParseInt(TDefault, radix)

\* try_parse has completed on the two hexadecimal digits "1F"
C13_Witness ==
    /\ last.op = "try_parse"
    /\ last.input = <<"1", "F">>
    /\ last.ret = OkReadyPair(31, InputDefault)
    /\ parsers[1].val = TDefault

(* C14: try_parse returns Pending if and only if the chunk is empty; a      *)
(* Pending result is no error and carries neither an output nor a leftover, *)
(* and the call leaves the accumulated value and the radix as they were.    *)
C14_PendingIffEmpty ==
    last.op = "try_parse" =>
        /\ (last.ret.tag = "Pending") <=> (last.input = <<>>)
        /\ last.ret.tag = "Pending" =>
               /\ DOMAIN last.ret = {"tag"}
               /\ parsers[last.who] = last.pre
               /\ last.calls = <<Call("try_parse", last.input)>>

\* try_parse has returned Pending on an instance that holds a partial value
C14_Witness ==
    /\ last.op = "try_parse"
    /\ last.ret = OkPending
    /\ last.pre.val # TDefault
    /\ parsers[1].val = last.pre.val


(* C15: extraneous(leftover) is a function of the leftover's first char and *)
(* the radix: the empty leftover gives Empty, a first char that is a digit  *)
(* of the radix gives Overflow, any other first char c gives                *)
(* InvalidChar(c); the parser state is not modified.                         *)
C15_ExtraneousHook ==
    LET radix == last.pre.radix
    IN  last.op = "extraneous" =>
            /\ parsers[last.who] = last.pre
            /\ last.input = <<>> => last.ret = Empty
            /\ (last.input # <<>> /\ is_valid_radix(radix)) =>
                   /\ DigitsOnly(<<last.input[1]>>, radix)
                          => last.ret = Overflow
                   /\ ~DigitsOnly(<<last.input[1]>>, radix)
                          => last.ret = InvalidChar(last.input[1])
                   /\ last.ret
                          = extraneous(ParseInt(TDefault, radix),
                                       <<last.input[1]>>).ret

\* extraneous, called on a leftover that starts with a digit, on an instance
\* that holds a partial value, has answered Overflow
C15_Witness ==
    /\ last.op = "extraneous"
    /\ Len(last.input) >= 2
    /\ last.pre.val # TDefault
    /\ last.ret = Overflow

\* the positions of the extraneous calls among the calls an operation made
ExtraneousCalls(calls) == {k \in 1..Len(calls) : calls[k].fn = "extraneous"}

(* C16: try_parse_only and parse_only call extraneous only with a leftover  *)
(* that differs from Input::default(), never with the empty input; parse    *)
(* and try_parse never call it.                                              *)
C16_ExtraneousPrecondition ==
    /\ last.op \in {"try_parse_only", "parse_only", "parse_one_only"} =>
           \A k \in ExtraneousCalls(last.calls) :
               /\ last.calls[k].arg # InputDefault
               /\ last.calls[k].arg = try_parse(last.pre, last.input).ret.rest
    /\ last.op \in {"parse", "try_parse", "parse_one"} =>
           ExtraneousCalls(last.calls) = {}

\* try_parse_only has handed the leftover of its chunk to extraneous
C16_Witness ==
    /\ last.op = "try_parse_only"
    /\ Len(last.calls) = 2
    /\ last.calls[2] = Call("extraneous", <<" ">>)
    /\ last.ret = Err(InvalidChar(" "))

\* the positions of the try_parse calls among the calls an operation made
TryParseCalls(calls) == {k \in 1..Len(calls) : calls[k].fn = "try_parse"}

(* C17: each call of parse, try_parse_only and parse_only calls try_parse   *)
(* exactly once, on the chunk it was given, so the parser advances by one   *)
(* step; when that step returns Err(e) the operation returns Err(e) as it   *)
(* is and calls neither insufficient nor extraneous.                         *)
C17_OneStep ==
    last.op \in {"parse", "try_parse_only", "parse_only"} =>
        LET t == try_parse(last.pre, last.input)
        IN  /\ TryParseCalls(last.calls) = {1}
            /\ last.calls[1] = Call("try_parse", last.input)
            /\ parsers[last.who] = t.self
            /\ t.ret.tag = "Err" =>
                   /\ last.ret = t.ret
                   /\ Len(last.calls) = 1

\* parse_only has passed on the Overflow error of its one step, which left a
\* partial value in the instance
C17_Witness ==
    /\ last.op = "parse_only"
    /\ last.ret = Err(Overflow)
    /\ Len(last.calls) = 1
    /\ last.pre.val = TDefault
    /\ parsers[1].val # TDefault


(* C18: the radix is valid only in the closed range [2, 36]:                *)
(* is_valid_radix(r) holds exactly when 2 <= r <= 36, and every parser      *)
(* produced by build_parser, and so every parse_one / parse_one_only call,  *)
(* operates with a radix that satisfies it.                                  *)
C18_ValidRadix ==
    /\ \A r \in Radices : is_valid_radix(r) <=> (2 <= r /\ r <= 36)
    /\ last.op = "build_parser" => is_valid_radix(parsers[last.who].radix)
    /\ last.op \in {"parse_one", "parse_one_only"} =>
           is_valid_radix(last.pre.radix)


(* C19: every leftover of a Ready result of try_parse is empty or begins    *)
(* with a char that is no digit of the radix; so through try_parse_only,    *)
(* parse_only and parse_one_only the extraneous hook never answers Overflow *)
(* nor Empty, and every Overflow error of any entry point comes from the    *)
(* checked multiply / add of the step, never from a cut-off.                *)
C19_OverflowFromStepOnly ==
    /\ (last.op = "try_parse" /\ last.ret.tag = "Ready"
            /\ last.ret.rest # InputDefault) =>
           ~DigitsOnly(<<last.ret.rest[1]>>, last.pre.radix)
    /\ last.op \in {"try_parse_only", "parse_only", "parse_one_only"} =>
           \A k \in ExtraneousCalls(last.calls) :
               /\ last.calls[k].arg # InputDefault
               /\ last.ret = Err(InvalidChar(last.calls[k].arg[1]))
    /\ (last.op \in ChunkOps /\ last.ret.tag = "Err"
            /\ last.ret.err \in {Overflow, Empty}) =>
           ExtraneousCalls(last.calls) = {}
    /\ (last.op \in ChunkOps /\ last.ret = Err(Overflow)) =>
           /\ try_parse(last.pre, last.input).ret = Err(Overflow)
           /\ ~accumulate(last.pre.val,
                          SubSeq(last.input, 1,
                                 LeadLen(last.input, last.pre.radix)),
                          last.pre.radix).done

\* try_parse_only has passed on an Overflow error that its one step, and no
\* hook, has produced
C19_Witness ==
    /\ last.op = "try_parse_only"
    /\ last.ret = Err(Overflow)
    /\ last.calls = <<Call("try_parse", last.input)>>
    /\ last.pre.val = TDefault


\* instance i as it was after the first k chunks it was fed
After(i, k) == Replay(build_parser(builder), SubSeq(fed[i], 1, k)).self

(* C20: after any sequence of try_parse calls on one instance in which no   *)
(* call returned Err(Overflow) the accumulated value is the default between *)
(* calls: a Ready result takes the value out and resets it, Pending and     *)
(* InvalidChar leave it untouched; the instance then behaves like a freshly *)
(* built parser. Only an Overflow error leaves a partial value behind.      *)
C20_CleanBetweenCalls ==
    \A i \in Instances :
        /\ NoOverflowBefore(i, Len(fed[i]) + 1) =>
               parsers[i] = build_parser(builder)
        /\ parsers[i].val # TDefault =>
               \E k \in 1..Len(fed[i]) : outs[i][k] = Err(Overflow)
        /\ \A k \in 1..Len(fed[i]) :
               /\ outs[i][k].tag = "Ready" => After(i, k).val = TDefault
               /\ ( \/ outs[i][k] = OkPending
                    \/ ( /\ outs[i][k].tag = "Err"
                         /\ outs[i][k].err.kind = "InvalidChar" ) )
                  => After(i, k) = After(i, k - 1)
               /\ NoOverflowBefore(i, k) =>
                      outs[i][k]
                          = try_parse(build_parser(builder), fed[i][k]).ret

\* an instance that returned a value with a leftover, then an InvalidChar
\* error, holds the default value
C20_Witness ==
    /\ builder = 10
    /\ fed[1] = << <<"1", " ">>, <<"f", "f">> >>
    /\ outs[1] = <<OkReadyPair(1, <<" ">>), Err(InvalidChar("f"))>>
    /\ parsers[1] = build_parser(builder)

====
